---- MODULE Spec2Model ----
(* Model of smopsys_sv: the beta-decay simulator (beta_decay.c) and the      *)
(* classical Simon oracle (simon_oracle.c).  Every C function is an operator *)
(* from a machine record m (the oracle statics, the serial output of the     *)
(* current call, and call instrumentation) to the machine after the call;    *)
(* every action is one call of one public function by the driver.            *)
EXTENDS Integers, Sequences, FiniteSets, TLC

(* ---------------- bounds ---------------- *)
\* bytes 0 .. LowBytes-1 are offered as uint8_t inputs
LowBytes == 3
\* bytes 256-HighBytes .. 255 are offered as uint8_t inputs
HighBytes == 1
\* calls that would push query_count past MaxCount are not taken
MaxCount == 6

InputBytes == (0 .. (LowBytes - 1)) \cup ((256 - HighBytes) .. 255)

(* ---------------- isotope names ---------------- *)
\* A C string is the sequence of its characters; "" is <<>>.
NameT == <<"T">>
NameHe3 == <<"H", "e", "-", "3">>
NameTh232 == <<"T", "h", "-", "2", "3", "2">>
NameD == <<"D">>
NameEmpty == <<>>
\* names an isotope table may hold
TableNames == {NameT, NameHe3, NameTh232, NameD}
\* names the driver passes to the lookups
Names == TableNames \cup {NameEmpty}

\* name[0]: the first character, or the terminating NUL of an empty string
FirstChar(name) == IF Len(name) = 0 THEN "NUL" ELSE name[1]

\* iso->h7_index of the isotope of a given name
H7Index(name) == CASE name = NameT -> 3
                   [] name = NameHe3 -> 2
                   [] name = NameTh232 -> 5
                   [] name = NameD -> 1
                   [] OTHER -> 0

\* iso->handedness of the isotope of a given name
Handedness(name) == CASE name = NameT -> <<"LEFT">>
                      [] name = NameHe3 -> <<"RIGHT">>
                      [] OTHER -> <<"CENTER">>

\* nuclear_find_isotope: exact match by name; found = FALSE is the NULL result
nuclear_find_isotope(tbl, name) ==
    IF name \in tbl
    THEN [found |-> TRUE, name |-> name, h7_index |-> H7Index(name),
          handedness |-> Handedness(name)]
    ELSE [found |-> FALSE, name |-> <<>>, h7_index |-> 0, handedness |-> <<>>]

(* ---------------- serial driver calls ---------------- *)
\* one record per call of the bayesian_serial driver, in call order; the
\* non-ASCII characters of the source's literals are written in ASCII
bayesian_serial_write(text) ==
    [fn |-> "write", text |-> text, num |-> 0, prec |-> 0]
Lit(str) == bayesian_serial_write(<<str>>)
bayesian_serial_write_decimal(n) ==
    [fn |-> "write_decimal", text |-> <<>>, num |-> n, prec |-> 0]
bayesian_serial_write_hex(b) ==
    [fn |-> "write_hex", text |-> <<>>, num |-> b, prec |-> 0]
bayesian_serial_write_float(v, p) ==
    [fn |-> "write_float", text |-> <<>>, num |-> v, prec |-> p]

Emit(m, writes) == [m EXCEPT !.serial = @ \o writes]

(* ---------------- integer helpers ---------------- *)
Pow2_8 == 256

RECURSIVE XorBits(_, _, _)
XorBits(a, b, n) ==
    IF n = 0 THEN 0
    ELSE (((a % 2) + (b % 2)) % 2) + 2 * XorBits(a \div 2, b \div 2, n - 1)
RECURSIVE OrBits(_, _, _)
OrBits(a, b, n) ==
    IF n = 0 THEN 0
    ELSE (IF (a % 2) + (b % 2) > 0 THEN 1 ELSE 0)
         + 2 * OrBits(a \div 2, b \div 2, n - 1)
\* mutant: x | s in place of x ^ s
Xor8_Or(a, b) == OrBits(a % Pow2_8, b % Pow2_8, 8)

\* uint8_t x ^ uint8_t s, truncated back to uint8_t
Xor8(a, b) == XorBits(a % Pow2_8, b % Pow2_8, 8)

Bit(v, i) == (v \div (2 ^ i)) % 2

(* ---------------- beta_decay.c ---------------- *)
\* 0.01857f, in units of 10^-5 MeV
Q_TRITIUM == 1857

ZeroDecay == [occurred |-> 0, Q_value_mev |-> 0, fermionic_output |-> 0]

\* mutant: the decay reports the electron only
DecayProducts_ElectronOnly ==
    [occurred |-> 1, Q_value_mev |-> Q_TRITIUM, fermionic_output |-> 1]

\* the result fields set when the decay occurs
DecayProducts ==
    [occurred |-> 1, Q_value_mev |-> Q_TRITIUM, fermionic_output |-> 3]

\* mutant: every isotope found in the table is taken to decay
DecayRuleApplies_Always(name) == TRUE

\* if (parent->name[0] == 'T')
DecayRuleApplies(name) == FirstChar(name) = "T"

\* mutant: the daughter lookup uses the parent's name
beta_decay_daughter_Parent(tbl) == nuclear_find_isotope(tbl, NameT)

\* nuclear_find_isotope("He-3")
beta_decay_daughter(tbl) == nuclear_find_isotope(tbl, NameHe3)

beta_decay_simulate(m, tbl, parent_name) ==
    LET parent == nuclear_find_isotope(tbl, parent_name) IN
    IF ~parent.found
    THEN [m |-> Emit(m, <<Lit("[Beta Decay] Parent isotope not found\n")>>),
          ret |-> ZeroDecay]
    ELSE
      LET m1 == Emit(m, <<Lit("[Beta Decay] Simulating: "),
                          bayesian_serial_write(parent.name),
                          Lit(" -> ")>>) IN
      IF DecayRuleApplies(parent.name)
      THEN LET daughter == beta_decay_daughter(tbl) IN
           IF daughter.found
           THEN [m |-> Emit(m1, <<bayesian_serial_write(daughter.name),
                                  Lit(" + e- + anti-nu_e\n"),
                                  Lit("[Beta Decay] Q = "),
                                  bayesian_serial_write_float(Q_TRITIUM, 5),
                                  Lit(" MeV\n")>>),
                 ret |-> DecayProducts]
           ELSE [m |-> m1, ret |-> ZeroDecay]
      ELSE [m |-> Emit(m1, <<Lit("STABLE (no decay)\n")>>), ret |-> ZeroDecay]

LeftLine == Lit("[Chirality] Handedness: LEFT-HANDED\n")
RightLine == Lit("[Chirality] Handedness: RIGHT-HANDED\n")
CenterLine == Lit("[Chirality] Handedness: CENTER\n")

\* mutant: the electron alone is enough for LEFT-HANDED
ChiralityLine_Or(has_electron, has_antineutrino) ==
    IF has_electron \/ has_antineutrino THEN LeftLine
    ELSE IF has_electron /\ ~has_antineutrino THEN RightLine
    ELSE CenterLine

\* the if / else if / else that picks the handedness line
ChiralityLine(has_electron, has_antineutrino) ==
    IF has_electron /\ has_antineutrino THEN LeftLine
    ELSE IF has_electron /\ ~has_antineutrino THEN RightLine
    ELSE CenterLine

beta_decay_compute_chirality(m, fermionic_output) ==
    LET has_electron == (fermionic_output % 2) # 0
        has_antineutrino == ((fermionic_output \div 2) % 2) # 0
        m1 == Emit(m, <<Lit("[Chirality] Fermionic output: "),
                        bayesian_serial_write_hex(fermionic_output),
                        Lit("\n"),
                        Lit("[Chirality] e-: "),
                        Lit(IF has_electron THEN "YES" ELSE "NO"),
                        Lit("\n[Chirality] anti-nu_e: "),
                        Lit(IF has_antineutrino THEN "YES" ELSE "NO"),
                        Lit("\n")>>)
    IN Emit(m1, <<ChiralityLine(has_electron, has_antineutrino)>>)

(* ---------------- simon_oracle.c ---------------- *)
\* m.nq and m.queried are instrumentation: the number of entries into
\* simon_oracle_query since simon_oracle_init was last entered, and the
\* arguments of the entries made during the current driver call.
\* mutant: the counter is not reset
simon_oracle_init_NoReset(m, secret) ==
    Emit([m EXCEPT !.oracle_secret = secret, !.nq = 0],
         <<Lit("[Simon Oracle] Initialized with secret: "),
           bayesian_serial_write_decimal(secret),
           Lit("\n")>>)

simon_oracle_init(m, secret) ==
    Emit([m EXCEPT !.oracle_secret = secret, !.query_count = 0, !.nq = 0],
         <<Lit("[Simon Oracle] Initialized with secret: "),
           bayesian_serial_write_decimal(secret),
           Lit("\n")>>)

simon_oracle_query(m, x) ==
    \* query_count++ on a uint32_t: the wrap at 2^32 lies beyond MaxCount
    LET count == m.query_count + 1
        result == Xor8(x, m.oracle_secret)
    IN [m |-> Emit([m EXCEPT !.query_count = count,
                             !.nq = @ + 1,
                             !.queried = Append(@, x)],
                   <<Lit("[Oracle] Query "),
                     bayesian_serial_write_decimal(count),
                     Lit(": f("),
                     bayesian_serial_write_decimal(x),
                     Lit(") = "),
                     bayesian_serial_write_decimal(result),
                     Lit("\n")>>),
        ret |-> result]

simon_oracle_get_query_count(m) == [m |-> m, ret |-> m.query_count]

\* mutant: the loop queries 1, 2, 3
RECURSIVE RunLoop_OffByOne(_, _, _)
RunLoop_OffByOne(m, result, i) ==
    IF i < 3
    THEN LET q == simon_oracle_query(m, i + 1) IN
         RunLoop_OffByOne(q.m, [result EXCEPT !.queries = @ + 1],
                          (i + 1) % Pow2_8)
    ELSE [m |-> m, ret |-> result]

\* for (uint8_t i = 0; i < 3; i++) { simon_oracle_query(i); result.queries++; }
RECURSIVE RunLoop(_, _, _)
RunLoop(m, result, i) ==
    IF i < 3
    THEN LET q == simon_oracle_query(m, i) IN
         RunLoop(q.m, [result EXCEPT !.queries = @ + 1], (i + 1) % Pow2_8)
    ELSE [m |-> m, ret |-> result]

\* mutant: the run starts by zeroing the oracle's counter
simon_run_algorithm_Fresh(m, n_qubits) ==
    LET m1 == Emit([m EXCEPT !.query_count = 0],
                   <<Lit("[Simon] Starting algorithm with "),
                     bayesian_serial_write_decimal(n_qubits),
                     Lit(" qubits\n")>>)
        l == RunLoop(m1, [queries |-> 0, secret_found |-> 0,
                          recovered_secret |-> 0], 0)
        result == [l.ret EXCEPT !.recovered_secret = l.m.oracle_secret,
                                !.secret_found = 1]
    IN [m |-> Emit(l.m, <<Lit("[Simon] Algorithm complete. Secret: "),
                          bayesian_serial_write_decimal(result.recovered_secret),
                          Lit("\n")>>),
        ret |-> result]

simon_run_algorithm(m, n_qubits) ==
    LET m1 == Emit(m, <<Lit("[Simon] Starting algorithm with "),
                        bayesian_serial_write_decimal(n_qubits),
                        Lit(" qubits\n")>>)
        l == RunLoop(m1, [queries |-> 0, secret_found |-> 0,
                          recovered_secret |-> 0], 0)
        result == [l.ret EXCEPT !.recovered_secret = l.m.oracle_secret,
                                !.secret_found = 1]
    IN [m |-> Emit(l.m, <<Lit("[Simon] Algorithm complete. Secret: "),
                          bayesian_serial_write_decimal(result.recovered_secret),
                          Lit("\n")>>),
        ret |-> result]

SearchingLine(target) == <<Lit("[Simon Nuclear] Searching for: "),
                           bayesian_serial_write(target),
                           Lit("\n")>>
NotFoundLine == <<Lit("[Simon Nuclear] Isotope not found\n")>>

\* the path taken when the isotope is found
NuclearSearchHit(m, iso) ==
    LET m2 == Emit(m, <<Lit("[Simon Nuclear] Found: "),
                        bayesian_serial_write(iso.name),
                        Lit("\n"),
                        Lit("[Simon Nuclear] H7 index: "),
                        bayesian_serial_write_decimal(iso.h7_index),
                        Lit("\n"),
                        Lit("[Simon Nuclear] Chirality: "),
                        bayesian_serial_write(iso.handedness),
                        Lit("\n")>>)
        m3 == simon_oracle_init(m2, iso.h7_index % Pow2_8)
        r == simon_run_algorithm(m3, 3)
    IN Emit(r.m, <<Lit("[Simon Nuclear] Search complete\n")>>)

\* mutant: the oracle is seeded before the lookup result is tested
simon_nuclear_search_SeedFirst(m, tbl, target_isotope) ==
    LET m1 == Emit(m, SearchingLine(target_isotope))
        iso == nuclear_find_isotope(tbl, target_isotope)
    IN IF ~iso.found
       THEN Emit([m1 EXCEPT !.oracle_secret = iso.h7_index % Pow2_8,
                            !.query_count = 0, !.nq = 0], NotFoundLine)
       ELSE NuclearSearchHit(m1, iso)

simon_nuclear_search(m, tbl, target_isotope) ==
    LET m1 == Emit(m, SearchingLine(target_isotope))
        iso == nuclear_find_isotope(tbl, target_isotope)
    IN IF ~iso.found
       THEN Emit(m1, NotFoundLine)
       ELSE NuclearSearchHit(m1, iso)

(* ---------------- state ---------------- *)
VARIABLES table,          \* the isotope table (names present), never mutated
          oracle_secret,  \* static uint8_t oracle_secret
          query_count,    \* static uint32_t query_count
          serial,         \* driver calls made by the most recent call
          queried,        \* arguments of simon_oracle_query in that call
          call,           \* the most recent call: function, argument, result
          hist            \* history since the last simon_oracle_init

vars == <<table, oracle_secret, query_count, serial, queried, call, hist>>

\* the machine a call starts from: the statics, and an empty call record
Machine == [oracle_secret |-> oracle_secret, query_count |-> query_count,
            serial |-> <<>>, queried |-> <<>>, nq |-> hist.nq]

\* store the machine a call ends in
Store(m) == /\ oracle_secret' = m.oracle_secret
            /\ query_count' = m.query_count
            /\ serial' = m.serial
            /\ queried' = m.queried

Init == /\ table \in SUBSET TableNames
        /\ oracle_secret = 0
        /\ query_count = 0
        /\ serial = <<>>
        /\ queried = <<>>
        /\ call = [fn |-> "none", arg |-> 0, ret |-> 0]
        /\ hist = [nq |-> 0, inited |-> FALSE, runs |-> 0, direct |-> 0,
                  twice |-> FALSE]

SimonOracleInit ==
    \E secret \in InputBytes :
      LET m == simon_oracle_init(Machine, secret) IN
      /\ Store(m)
      /\ call' = [fn |-> "simon_oracle_init", arg |-> secret, ret |-> 0]
      /\ hist' = [nq |-> m.nq, inited |-> TRUE, runs |-> 0, direct |-> 0,
                  twice |-> FALSE]
      /\ UNCHANGED table

SimonOracleQuery ==
    \E x \in InputBytes :
      LET q == simon_oracle_query(Machine, x) IN
      /\ query_count < MaxCount
      /\ Store(q.m)
      /\ call' = [fn |-> "simon_oracle_query", arg |-> x, ret |-> q.ret]
      /\ hist' = [hist EXCEPT !.nq = q.m.nq, !.direct = @ + 1,
                           !.twice = (call.fn = "simon_oracle_query"
                                      /\ call.ret = x)]
      /\ UNCHANGED table

SimonOracleGetQueryCount ==
    LET g == simon_oracle_get_query_count(Machine) IN
    /\ Store(g.m)
    /\ call' = [fn |-> "simon_oracle_get_query_count", arg |-> 0, ret |-> g.ret]
    /\ hist' = [hist EXCEPT !.nq = g.m.nq, !.twice = FALSE]
    /\ UNCHANGED table

SimonRunAlgorithm ==
    \E n_qubits \in InputBytes :
      LET r == simon_run_algorithm(Machine, n_qubits) IN
      /\ query_count + 3 <= MaxCount
      /\ Store(r.m)
      /\ call' = [fn |-> "simon_run_algorithm", arg |-> n_qubits, ret |-> r.ret]
      /\ hist' = [hist EXCEPT !.nq = r.m.nq, !.runs = @ + 1, !.twice = FALSE]
      /\ UNCHANGED table

SimonNuclearSearch ==
    \E target \in Names :
      LET m == simon_nuclear_search(Machine, table, target) IN
      /\ Store(m)
      /\ call' = [fn |-> "simon_nuclear_search", arg |-> target, ret |-> 0]
      /\ hist' = IF target \in table
                 THEN [nq |-> m.nq, inited |-> TRUE, runs |-> 1, direct |-> 0,
                       twice |-> FALSE]
                 ELSE [hist EXCEPT !.nq = m.nq, !.twice = FALSE]
      /\ UNCHANGED table

BetaDecaySimulate ==
    \E parent_name \in Names :
      LET d == beta_decay_simulate(Machine, table, parent_name) IN
      /\ Store(d.m)
      /\ call' = [fn |-> "beta_decay_simulate", arg |-> parent_name, ret |-> d.ret]
      /\ hist' = [hist EXCEPT !.nq = d.m.nq, !.twice = FALSE]
      /\ UNCHANGED table

BetaDecayComputeChirality ==
    \E mask \in InputBytes :
      LET m == beta_decay_compute_chirality(Machine, mask) IN
      /\ Store(m)
      /\ call' = [fn |-> "beta_decay_compute_chirality", arg |-> mask, ret |-> 0]
      /\ hist' = [hist EXCEPT !.nq = m.nq, !.twice = FALSE]
      /\ UNCHANGED table

Next == \/ SimonOracleInit
        \/ SimonOracleQuery
        \/ SimonOracleGetQueryCount
        \/ SimonRunAlgorithm
        \/ SimonNuclearSearch
        \/ BetaDecaySimulate
        \/ BetaDecayComputeChirality

Spec == Init /\ [][Next]_vars

(* ---------------- observations of the serial output ---------------- *)
\* the (query number, input, output) triples the oracle wrote, in order
RECURSIVE OracleTrace(_, _)
OracleTrace(s, i) ==
    IF i > Len(s) THEN <<>>
    ELSE IF s[i] = Lit("[Oracle] Query ")
         THEN <<[n |-> s[i + 1].num, x |-> s[i + 3].num, fx |-> s[i + 5].num]>>
              \o OracleTrace(s, i + 1)
         ELSE OracleTrace(s, i + 1)

HandednessLines == {LeftLine, RightLine, CenterLine}

TypeOK == /\ table \subseteq TableNames
          /\ oracle_secret \in 0 .. 255
          /\ query_count \in 0 .. MaxCount

(* ---------------- claims ---------------- *)

C2_NonTStable ==
    (call.fn = "beta_decay_simulate" /\ FirstChar(call.arg) # "T")
    => (/\ call.ret.occurred = 0
        /\ call.ret.Q_value_mev = 0
        /\ call.ret.fermionic_output = 0)

C2_Witness ==
    /\ call.fn = "beta_decay_simulate"
    /\ call.arg = NameD
    /\ {NameD, NameHe3} \subseteq table
    /\ call.ret.occurred = 0
    /\ serial[Len(serial)] = Lit("STABLE (no decay)\n")

\* C3: when the parent begins with 'T' and is in the table but "He-3" is not,
\* beta_decay_simulate completes and returns occurred = 0, energy = 0, mask = 0.
C3_DaughterMiss ==
    (/\ call.fn = "beta_decay_simulate"
     /\ FirstChar(call.arg) = "T"
     /\ call.arg \in table
     /\ NameHe3 \notin table)
    => (/\ call.ret.occurred = 0
        /\ call.ret.Q_value_mev = 0
        /\ call.ret.fermionic_output = 0)

C3_Witness ==
    /\ call.fn = "beta_decay_simulate"
    /\ call.arg = NameT
    /\ NameT \in table
    /\ NameHe3 \notin table
    /\ call.ret.occurred = 0
    /\ Len(serial) = 3

\* C4: beta_decay_simulate returns occurred = 1 only when the parent is the
\* isotope named "T"; for every other isotope occurred is 0.
C4_OnlyT ==
    (call.fn = "beta_decay_simulate" /\ call.ret.occurred = 1)
    => call.arg = NameT

\* C5: beta_decay_compute_chirality writes exactly one handedness line, as its
\* last write, chosen from bits 0 and 1 of the mask: both set -> LEFT-HANDED,
\* bit 0 only -> RIGHT-HANDED, anything else -> CENTER.
C5_Chirality ==
    call.fn = "beta_decay_compute_chirality"
    => LET e == Bit(call.arg, 0) = 1
           n == Bit(call.arg, 1) = 1
           hand == {i \in 1 .. Len(serial) : serial[i] \in HandednessLines}
       IN /\ hand = {Len(serial)}
          /\ e /\ n => serial[Len(serial)] = LeftLine
          /\ e /\ ~n => serial[Len(serial)] = RightLine
          /\ ~e => serial[Len(serial)] = CenterLine

C5_Witness ==
    /\ call.fn = "beta_decay_compute_chirality"
    /\ call.arg = 255
    /\ serial[Len(serial)] = LeftLine

\* C6: right after simon_oracle_init the counter is 0; the counter always
\* equals the number of simon_oracle_query calls since the last init, each
\* such call raising it by exactly 1; simon_oracle_get_query_count returns the
\* counter and changes neither the counter nor the secret.
C6_QueryCounter ==
    /\ [](/\ query_count = hist.nq
          /\ call.fn = "simon_oracle_init" => query_count = 0
          /\ call.fn = "simon_oracle_get_query_count" => call.ret = query_count)
    /\ [][/\ call'.fn = "simon_oracle_query" => query_count' = query_count + 1
          /\ call'.fn = "simon_oracle_get_query_count"
               => (query_count' = query_count /\ oracle_secret' = oracle_secret)
         ]_vars

C6_Witness ==
    /\ call.fn = "simon_oracle_get_query_count"
    /\ hist.inited
    /\ hist.nq = 4
    /\ call.ret = 4

\* C7: simon_oracle_query(x) returns x XOR secret bit by bit and leaves the
\* secret alone, and a query of the value the previous query returned gives
\* back that previous query's argument.
C7_XorInvolution ==
    [][call'.fn = "simon_oracle_query"
       => /\ call'.ret \in 0 .. 255
          /\ \A i \in 0 .. 7 :
               Bit(call'.ret, i) = (Bit(call'.arg, i) + Bit(oracle_secret, i)) % 2
          /\ oracle_secret' = oracle_secret
          /\ (call.fn = "simon_oracle_query" /\ call'.arg = call.ret)
               => call'.ret = call.arg
      ]_vars

C7_Witness ==
    /\ call.fn = "simon_oracle_query"
    /\ hist.twice
    /\ oracle_secret = 3
    /\ call.arg = 2
    /\ call.ret = 1

\* C8: simon_run_algorithm, for every n_qubits and oracle state, calls the
\* oracle exactly 3 times with 0, 1, 2 in that order and returns queries = 3,
\* secret_found = 1 and recovered_secret = the oracle's secret.
C8_RunAlgorithm ==
    [][call'.fn = "simon_run_algorithm"
       => /\ queried' = <<0, 1, 2>>
          /\ [k \in 1 .. 3 |-> OracleTrace(serial', 1)[k].x] = <<0, 1, 2>>
          /\ Len(OracleTrace(serial', 1)) = 3
          /\ query_count' = query_count + 3
          /\ call'.ret.queries = 3
          /\ call'.ret.secret_found = 1
          /\ call'.ret.recovered_secret = oracle_secret
          /\ oracle_secret' = oracle_secret
      ]_vars

C8_Witness ==
    /\ call.fn = "simon_run_algorithm"
    /\ call.arg = 0
    /\ oracle_secret = 255
    /\ call.ret.recovered_secret = 255
    /\ query_count = 5

\* C9: simon_nuclear_search on a name that is not in the table leaves the
\* secret and the counter as they were, calls the oracle zero times, and
\* writes only the "searching" and "not found" lines.
C9_UnknownName ==
    [][(call'.fn = "simon_nuclear_search" /\ call'.arg \notin table)
       => /\ oracle_secret' = oracle_secret
          /\ query_count' = query_count
          /\ queried' = <<>>
          /\ serial' = <<Lit("[Simon Nuclear] Searching for: "),
                         bayesian_serial_write(call'.arg),
                         Lit("\n"),
                         Lit("[Simon Nuclear] Isotope not found\n")>>
      ]_vars

C9_Witness ==
    /\ call.fn = "simon_nuclear_search"
    /\ call.arg \notin table
    /\ oracle_secret = 255
    /\ query_count = 4

\* C10: after an init followed only by k simon_run_algorithm calls the counter
\* is 3k while every run returns queries = 3 (equal to the counter only for
\* the first run), and the query number each query writes is the oracle's
\* counter.
C10_Lockstep ==
    /\ (hist.inited /\ hist.direct = 0) => query_count = 3 * hist.runs
    /\ call.fn = "simon_run_algorithm"
         => /\ call.ret.queries = 3
            /\ [k \in 1 .. 3 |-> OracleTrace(serial, 1)[k].n]
                 = <<query_count - 2, query_count - 1, query_count>>
            /\ (hist.inited /\ hist.direct = 0 /\ hist.runs = 1)
                 => call.ret.queries = query_count
    /\ call.fn = "simon_oracle_query"
         => OracleTrace(serial, 1)[1].n = query_count

C10_Witness ==
    /\ call.fn = "simon_run_algorithm"
    /\ hist.inited
    /\ hist.direct = 0
    /\ hist.runs = 2
    /\ query_count = 6
    /\ call.ret.queries = 3
====
